---- MODULE Spec2Model ----
(***************************************************************************)
(* Model of the recipe server's job pipeline (src/src/tasks.py,            *)
(* src/src/tiktok_scraper.py, src/src/services.py), of the superseded      *)
(* task of src/tasks.py, and of the progress broadcaster                   *)
(* (src/src/websocket_manager.py).                                         *)
(*                                                                         *)
(* Spec runs one job (task id TaskId) through scrape_tiktok_async while    *)
(* subscribers connect to and disconnect from the broadcaster and the      *)
(* listener drains the pub/sub bus.  The job pipeline reads nothing but    *)
(* its own locals, so one job's run is modelled; JobIds has a second id    *)
(* that only keys the subscriber map.                                      *)
(* LegacySpec runs the task of src/tasks.py.                               *)
(* HubSpec runs the broadcaster send by send, beside the job's writes to   *)
(* the Job Store and to the bus.  ProbeSpec applies the engine's strategy  *)
(* decision, SamplerSpec the frame sampler, each to one drawn input.       *)
(*                                                                         *)
(* Environment faults modelled: the scraper's construction, the provider   *)
(* call, the dataset record, every caption and media download, opening the *)
(* video, each model call and its response, the upload, the two log calls  *)
(* after the persistence hand-off, and every publish to the bus.           *)
(***************************************************************************)
EXTENDS Integers, Sequences, FiniteSets, TLC

\* ---------------------------------------------------------------- bounds
MaxCaptionLinks == 2    \* caption links in one metadata record
MaxFramesOut == 1       \* frames a successful extraction hands back
MaxBus == 2             \* messages buffered between redis and the listener
MaxProbeFrames == 12    \* frames handed to the engine in ProbeSpec
MaxTotalFrames == 130   \* frames of the video in SamplerSpec

\* ------------------------------------------------------ program constants
TotalSteps == 5
ReducedFrameCap == 5
MinSubtitleLen == 50
MinFallbackTextLen == 10
SkipPercent == 5
DenseLimit == 30
MediumLimit == 120

TaskId == "j1"
JobIds == {"j1", "j2"}
Sockets == {"w1", "w2"}

\* ------------------------------------------------------------------ texts
\* A text is known by the features the code reads: its length, its length
\* after strip(), the numbers of matched keywords / actions / quantity
\* patterns, and the word and sentence counts of split('.').
MkText(id, len, strip, kw, act, qty, words, sents) ==
    [id |-> id, len |-> len, strip |-> strip, kw |-> kw, act |-> act,
     qty |-> qty, words |-> words, sents |-> sents]

NoText == MkText(0, 0, 0, 0, 0, 0, 0, 1)
TinyText == MkText(1, 5, 5, 0, 0, 0, 1, 1)
ShortText == MkText(2, 30, 30, 1, 0, 0, 6, 1)
PoorText == MkText(3, 120, 120, 1, 0, 0, 30, 10)
MediumText == MkText(4, 150, 150, 4, 2, 2, 40, 5)
GoodText == MkText(5, 250, 250, 8, 4, 3, 48, 8)

NarrationTexts == {NoText, TinyText, MediumText}
CaptionTexts == {NoText, ShortText, PoorText, MediumText, GoodText}

Min(a, b) == IF a < b THEN a ELSE b

\* The length part of the score: `len(subtitles) > 200`, `elif > 100`.
LengthBonus(len) == IF len > 200 THEN 25 ELSE IF len > 100 THEN 15 ELSE 0

\* (variant: the sum is handed back without the cap at 100)
AnalyzeSubtitleQualityUncapped(s) ==
    IF s.len = 0 THEN 0
    ELSE LengthBonus(s.len) + Min(s.kw * 5, 30) + Min(s.act * 3, 20) + Min(s.qty * 4, 25)
         + (IF s.words > 5 * s.sents THEN 10 ELSE IF s.words > 3 * s.sents THEN 5 ELSE 0)

AnalyzeSubtitleQuality(s) ==
    IF s.len = 0 THEN 0
    ELSE LET lenPts == LengthBonus(s.len)
             kwPts == Min(s.kw * 5, 30)
             actPts == Min(s.act * 3, 20)
             qtyPts == Min(s.qty * 4, 25)
             cohPts == IF s.words > 5 * s.sents THEN 10
                       ELSE IF s.words > 3 * s.sents THEN 5 ELSE 0
         IN Min(lenPts + kwPts + actPts + qtyPts + cohPts, 100)

\* (variant: the thresholds are inclusive)
DetermineProcessingStrategyInclusive(subtitles) ==
    IF subtitles.len = 0 \/ subtitles.strip < MinSubtitleLen THEN "full_processing"
    ELSE IF AnalyzeSubtitleQuality(subtitles) >= 80 THEN "text_only"
    ELSE IF AnalyzeSubtitleQuality(subtitles) >= 50 THEN "reduced_frames"
    ELSE "full_processing"

\* (variant: a short text is scored like any other)
DetermineProcessingStrategyScoreOnly(subtitles) ==
    IF subtitles.len = 0 THEN "full_processing"
    ELSE IF AnalyzeSubtitleQuality(subtitles) > 80 THEN "text_only"
    ELSE IF AnalyzeSubtitleQuality(subtitles) > 50 THEN "reduced_frames"
    ELSE "full_processing"

DetermineProcessingStrategy(subtitles) ==
    IF subtitles.len = 0 \/ subtitles.strip < MinSubtitleLen THEN "full_processing"
    ELSE IF AnalyzeSubtitleQuality(subtitles) > 80 THEN "text_only"
    ELSE IF AnalyzeSubtitleQuality(subtitles) > 50 THEN "reduced_frames"
    ELSE "full_processing"

\* _combine_text_sources yields a non-empty string exactly in this case
CombinedNonEmpty(text, subtitles) ==
    subtitles.len > 0 \/ (text.len > 0 /\ text # subtitles)

\* ---------------------------------------------------------------- recipes
\* A recipe is known by the type of each of its three fields.
\*   title: "str" | "absent" | "bad";  ingredients: "list" | "empty" | "absent" | "bad"
\*   steps: "list" | "one" | "empty" | "absent" | "bad"
\*   explain: the text of the placeholder's single step, "" otherwise
MkRecipe(t, i, s, e) == [title |-> t, ingredients |-> i, steps |-> s, explain |-> e]

NoRecipe == MkRecipe("none", "none", "none", "")

CreateFallbackRecipe(msg) == MkRecipe("str", "empty", "one", msg)

GoodObj == MkRecipe("str", "list", "list", "")
NoTitleObj == MkRecipe("absent", "list", "list", "")
BadTypesObj == MkRecipe("bad", "bad", "absent", "")
EmptyObj == MkRecipe("absent", "absent", "absent", "")
JsonObjects == {GoodObj, NoTitleObj, BadTypesObj, EmptyObj}

ValidateRecipeStructure(r) ==
    [r EXCEPT !.title = IF r.title = "str" THEN r.title ELSE "str",
              !.ingredients = IF r.ingredients \in {"list", "empty"} THEN r.ingredients ELSE "empty",
              !.steps = IF r.steps \in {"list", "one", "empty"} THEN r.steps ELSE "empty"]

\* ------------------------------------------------------- model responses
\* What each parser strategy finds in a response text, in the order the
\* code tries them: the direct parse (text starts with { and ends with }),
\* then the four regular expressions.  m is "nomatch", "invalid" (matched,
\* json.loads raises) or "obj" (json.loads returns obj).
NoMatch == [m |-> "nomatch", obj |-> NoRecipe]
Invalid == [m |-> "invalid", obj |-> NoRecipe]
Parsed(o) == [m |-> "obj", obj |-> o]

MkContent(direct, p1, p2, p3, p4) == [direct |-> direct, pats |-> <<p1, p2, p3, p4>>]

BareObject(o) == MkContent(Parsed(o), NoMatch, NoMatch, NoMatch, NoMatch)
FencedObject(o) == MkContent(NoMatch, Parsed(o), Parsed(o), Parsed(o), Parsed(o))
ProseThenObject(o) == MkContent(NoMatch, NoMatch, NoMatch, Parsed(o), Parsed(o))
ProseOnly == MkContent(NoMatch, NoMatch, NoMatch, NoMatch, NoMatch)
BrokenObject == MkContent(Invalid, NoMatch, NoMatch, NoMatch, Invalid)
TwoObjects(o) == MkContent(Invalid, NoMatch, NoMatch, Parsed(o), Parsed(o))

Contents ==
    {BareObject(o) : o \in JsonObjects} \cup {FencedObject(GoodObj), ProseThenObject(NoTitleObj),
     ProseOnly, BrokenObject, TwoObjects(GoodObj)}

RECURSIVE FirstParsed(_, _)
FirstParsed(pats, i) ==
    IF i > Len(pats) THEN CreateFallbackRecipe("Konnte JSON nicht parsen")
    ELSE IF pats[i].m = "obj" THEN pats[i].obj
    ELSE FirstParsed(pats, i + 1)

ParseRecipeJson(c) ==
    IF c.direct.m = "obj" THEN c.direct.obj
    ELSE IF c.direct.m = "invalid" THEN CreateFallbackRecipe("JSON parsing fehlgeschlagen")
    ELSE FirstParsed(c.pats, 1)

\* One call of the model: the transport fails, the message has no content,
\* or the message carries a text.
CallRaises == [kind |-> "raise", content |-> ProseOnly]
CallNull == [kind |-> "null", content |-> ProseOnly]
CallText(c) == [kind |-> "text", content |-> c]
ModelOutcomes == {CallRaises, CallNull} \cup {CallText(c) : c \in Contents}

\* ------------------------------------------------- reconstruction engine
\* The text-only call of the text_only strategy: every exception is caught
\* inside and becomes the placeholder.
ProcessTextOnlyOptimized(o1) ==
    IF o1.kind = "text"
    THEN [recipe |-> ValidateRecipeStructure(ParseRecipeJson(o1.content)), calls |-> 1, path |-> "optimized"]
    ELSE [recipe |-> CreateFallbackRecipe("Text-only processing failed"), calls |-> 1, path |-> "optimized_failed"]

\* The fallback of the except branch; t is `text or subtitles`.
ProcessTextOnly(t, o2, callsBefore) ==
    IF t.len = 0 \/ t.strip < MinFallbackTextLen
    THEN [recipe |-> CreateFallbackRecipe("Text zu kurz oder leer"), calls |-> callsBefore, path |-> "fallback_short"]
    ELSE IF o2.kind = "text"
    THEN [recipe |-> ParseRecipeJson(o2.content), calls |-> callsBefore + 1, path |-> "fallback_call"]
    ELSE [recipe |-> CreateFallbackRecipe("Fehler bei Text-Verarbeitung"), calls |-> callsBefore + 1, path |-> "fallback_failed"]

\* The except branch of process_video_content.
ExceptBranch(text, subtitles, o2, callsBefore) ==
    IF text.len > 0 \/ subtitles.len > 0
    THEN ProcessTextOnly(IF text.len > 0 THEN text ELSE subtitles, o2, callsBefore)
    ELSE [recipe |-> CreateFallbackRecipe("Fehler bei Verarbeitung"), calls |-> callsBefore, path |-> "no_text"]

\* _make_openai_request followed by _process_openai_response on n images.
RequestWithFrames(text, subtitles, o1, o2) ==
    IF o1.kind = "text"
    THEN [recipe |-> ValidateRecipeStructure(ParseRecipeJson(o1.content)), calls |-> 1, path |-> "primary"]
    ELSE ExceptBranch(text, subtitles, o2, 1)

ImagesSent(strategy, nframes) ==
    IF strategy = "text_only" THEN 0
    ELSE IF strategy = "reduced_frames" THEN Min(nframes, ReducedFrameCap)
    ELSE nframes

\* process_video_content: o1 and o2 are what the first and the second call
\* of the model do, if they are made.
ProcessVideoContent(text, subtitles, nframes, o1, o2) ==
    LET strategy == DetermineProcessingStrategy(subtitles)
        run == IF ~CombinedNonEmpty(text, subtitles) /\ nframes = 0
               THEN [recipe |-> CreateFallbackRecipe("Keine Daten zum Verarbeiten gefunden"),
                     calls |-> 0, path |-> "no_data"]
               ELSE IF strategy = "text_only" THEN ProcessTextOnlyOptimized(o1)
               ELSE RequestWithFrames(text, subtitles, o1, o2)
    IN [recipe |-> run.recipe, calls |-> run.calls, path |-> run.path,
        strategy |-> IF run.path = "no_data" THEN "none" ELSE strategy,
        images |-> IF run.path = "no_data" THEN 0 ELSE ImagesSent(strategy, nframes),
        firstFailed |-> run.path # "no_data" /\ o1.kind = "raise",
        hadText |-> text.len > 0 \/ subtitles.len > 0]

\* ------------------------------------------------------ content extractor
LinkOutcomes == {"nolink", "raise", "status", "ok"}

RECURSIVE SeqsUpTo(_, _)
SeqsUpTo(S, n) ==
    IF n = 0 THEN {<<>>}
    ELSE SeqsUpTo(S, n - 1) \cup {Append(q, x) : q \in {r \in SeqsUpTo(S, n - 1) : Len(r) = n - 1}, x \in S}

\* The loop of extract_subtitles over the caption links from link i on:
\* gets counts the downloads made, found says whether one returned 200.
RECURSIVE TryLinks(_, _, _)
TryLinks(links, i, gets) ==
    IF i > Len(links) THEN [found |-> FALSE, gets |-> gets]
    ELSE IF links[i] = "nolink" THEN TryLinks(links, i + 1, gets)
    ELSE IF links[i] = "ok" THEN [found |-> TRUE, gets |-> gets + 1]
    ELSE TryLinks(links, i + 1, gets + 1)

\* extract_subtitles: vm is "absent" (no videoMeta key), "null" or "present".
\* `"subtitleLinks" in item["videoMeta"]` raises TypeError on a null videoMeta.
ExtractSubtitles(vm, links, capText) ==
    IF vm = "absent" THEN [raised |-> FALSE, text |-> NoText, gets |-> 0]
    ELSE IF vm = "null" THEN [raised |-> TRUE, text |-> NoText, gets |-> 0]
    ELSE LET r == TryLinks(links, 1, 0)
         IN [raised |-> FALSE, text |-> IF r.found THEN capText ELSE NoText, gets |-> r.gets]

ItemFields == [mediaUrls : BOOLEAN, downloadAddr : BOOLEAN, playAddr : BOOLEAN,
               coverUrl : BOOLEAN, webVideoUrl : BOOLEAN]

GetVideoUrl(vm, f) ==
    IF f.mediaUrls THEN "mediaUrls"
    ELSE IF vm = "present" /\ f.downloadAddr THEN "downloadAddr"
    ELSE IF vm = "present" /\ f.playAddr THEN "playAddr"
    ELSE "none"

\* requests.get raises, answers a status other than 200, the body stream
\* breaks, cv2 cannot open the file, or all goes well
\* The records told apart: the fields inside videoMeta exist only when it
\* is an object, and coverUrl / webVideoUrl are read only when no media URL
\* was resolved.
ItemShapes(vm) ==
    {f \in ItemFields :
        /\ vm # "present" => (~f.downloadAddr /\ ~f.playAddr /\ ~f.coverUrl)
        /\ GetVideoUrl(vm, f) # "none" => (~f.coverUrl /\ ~f.webVideoUrl)}

DownloadOutcomes == {"get_raises", "bad_status", "stream_fail", "open_fail", "ok"}
CoverOutcomes == {"fail", "ok"}
YtdlpOutcomes == {"raise", "empty", "ok"}

\* _download_and_extract_frames: every failure is re-raised
\* (VideoDownloadError or VideoProcessingError).
DownloadAndExtractFrames(dl, n) ==
    IF dl = "ok" THEN [raised |-> FALSE, frames |-> n, gets |-> 1, cause |-> "none"]
    ELSE [raised |-> TRUE, frames |-> 0, gets |-> 1, cause |-> dl]

\* (variant: a cover download that fails ends the attempt, the alternate
\* downloader is not asked)
FramesWithoutUrlCoverOnly(vm, f, cov, yt, n) ==
    IF vm = "present" /\ f.coverUrl
    THEN [raised |-> FALSE, frames |-> IF cov = "ok" THEN 1 ELSE 0, gets |-> 1, cause |-> "none"]
    ELSE IF f.webVideoUrl
         THEN [raised |-> FALSE, frames |-> IF yt = "ok" THEN n ELSE 0, gets |-> 1, cause |-> "none"]
         ELSE [raised |-> FALSE, frames |-> 0, gets |-> 0, cause |-> "none"]

\* The branch of extract_frames taken when no media URL was resolved.
FramesWithoutUrl(vm, f, cov, yt, n) ==
    IF vm = "present" /\ f.coverUrl /\ cov = "ok"
    THEN [raised |-> FALSE, frames |-> 1, gets |-> 1, cause |-> "none"]
    ELSE LET g == IF vm = "present" /\ f.coverUrl THEN 1 ELSE 0
         IN IF f.webVideoUrl
            THEN [raised |-> FALSE, frames |-> IF yt = "ok" THEN n ELSE 0, gets |-> g + 1, cause |-> "none"]
            ELSE [raised |-> FALSE, frames |-> 0, gets |-> g, cause |-> "none"]

\* extract_frames: the call of _download_and_extract_frames is not guarded.
ExtractFrames(vm, f, dl, cov, yt, n) ==
    IF GetVideoUrl(vm, f) # "none" THEN DownloadAndExtractFrames(dl, n)
    ELSE FramesWithoutUrl(vm, f, cov, yt, n)

\* The dataset record check of scrape_and_process.
ProviderOutcomes == {"raise", "no_dataset", "empty_dataset", "not_found", "item_error", "item"}

\* (variant: a record reporting the video as not found is taken for a video)
DatasetItemCheckLenient(o) ==
    IF o \in {"raise", "no_dataset", "item_error"} THEN "raise"
    ELSE IF o = "empty_dataset" THEN "skip"
    ELSE "continue"

DatasetItemCheck(o) ==
    IF o \in {"raise", "no_dataset", "not_found", "item_error"} THEN "raise"
    ELSE IF o = "empty_dataset" THEN "skip"
    ELSE "continue"

\* --------------------------------------------------------------- job store
PendingEntry == [state |-> "PENDING", step |-> 0, total |-> 0, code |-> "", resultStatus |-> "", uploadError |-> FALSE]

ProgressData(k) == [step |-> k, total_steps |-> TotalSteps]

ProgressEntry(d) == [state |-> "PROGRESS", step |-> d.step, total |-> d.total_steps, code |-> "", resultStatus |-> "", uploadError |-> FALSE]
FailureEntry(code) == [state |-> "FAILURE", step |-> 0, total |-> 0, code |-> code, resultStatus |-> "FAILURE", uploadError |-> FALSE]
\* Celery stores the returned dict under state SUCCESS.
SuccessEntry(uploaded) == [state |-> "SUCCESS", step |-> 0, total |-> 0,
                           code |-> IF uploaded THEN "" ELSE "UPLOAD_FAILED",
                           resultStatus |-> IF uploaded THEN "success" ELSE "FAILURE",
                           uploadError |-> ~uploaded]

\* ------------------------------------------------------------------ events
ProgressEvent(d) == [type |-> "progress", task_id |-> TaskId, step |-> d.step, total |-> d.total_steps, status |-> "", code |-> ""]
CompletionEvent == [type |-> "completion", task_id |-> TaskId, step |-> 0, total |-> 0, status |-> "SUCCESS", code |-> ""]
ErrorEvent(code) == [type |-> "error", task_id |-> TaskId, step |-> 0, total |-> 0, status |-> "FAILURE", code |-> code]
UploadErrorEvent == ErrorEvent("UPLOAD_FAILED")
NoEvent == [type |-> "none", task_id |-> TaskId, step |-> 0, total |-> 0, status |-> "", code |-> ""]

\* (variant: the replayed status leaves the progress figures out)
CurrentStatusBare(e) ==
    IF e.state = "PENDING" THEN [type |-> "status", status |-> "PENDING", step |-> 0, total |-> 0, uploadError |-> FALSE]
    ELSE IF e.state = "PROGRESS" THEN [type |-> "status", status |-> "PROGRESS", step |-> 0, total |-> 0, uploadError |-> FALSE]
    ELSE IF e.state = "SUCCESS" THEN [type |-> "completion", status |-> "SUCCESS", step |-> 0, total |-> 0, uploadError |-> e.uploadError]
    ELSE [type |-> "error", status |-> "FAILURE", step |-> 0, total |-> 0, uploadError |-> FALSE]

\* The message _send_current_status builds from the job store entry e.
CurrentStatus(e) ==
    IF e.state = "PENDING" THEN [type |-> "status", status |-> "PENDING", step |-> 0, total |-> 0, uploadError |-> FALSE]
    ELSE IF e.state = "PROGRESS" THEN [type |-> "status", status |-> "PROGRESS", step |-> e.step, total |-> e.total, uploadError |-> FALSE]
    ELSE IF e.state = "SUCCESS" THEN [type |-> "completion", status |-> "SUCCESS", step |-> 0, total |-> 0, uploadError |-> e.uploadError]
    ELSE [type |-> "error", status |-> "FAILURE", step |-> 0, total |-> 0, uploadError |-> FALSE]

\* Where scrape_tiktok_async goes after publishing progress step k.
AfterProgress(k) ==
    IF k = 1 THEN "init_scraper"
    ELSE IF k = 4 THEN "acquire"
    ELSE IF k = 5 THEN "upload"
    ELSE "progress_store"

\* The code each except clause of scrape_tiktok_async stores and publishes.
HandlerCode(excType) == IF excType = "TikTokScrapingError" THEN "SCRAPING_ERROR" ELSE "PROCESSING_ERROR"

\* (variant: the except clause falls through to `return result`)
HandlerFallsThrough == "return"

\* Both except clauses end in `raise Ignore()`: the task is over.
HandlerExit == "done"

\* ------------------------------------------------------------------- state
VARIABLES
    pc,             \* where the job is in scrape_tiktok_async
    step,           \* progress_data['step'] of the update in hand
    store,          \* the job's entry in the Job Store (Celery result backend)
    text,           \* video_data["text"]
    subtitles,      \* video_data["subtitles"] (NoText for None)
    vmeta,          \* shape of item["videoMeta"]: "absent", "null", "present"
    frames,         \* number of frames recovered
    engine,         \* what process_video_content did (see ProcessVideoContent)
    result,         \* the recipe inside the local `result`
    uploaded,       \* whether upload_recipe returned
    excType,        \* class of the exception being handled
    cause,          \* what went wrong in this run
    gets,           \* caption and media downloads made while gathering the evidence
    calls,          \* number of provider calls
    lastProgress,   \* last progress event published
    terminalEvents, \* terminal events published, in order
    bus,            \* messages published and not yet read by the listener
    connections,    \* WebSocketTaskManager.connections
    sockTask        \* task id each open socket's endpoint serves, "none" if closed

VARIABLES
    lpc,            \* where the superseded task (src/tasks.py) is
    lstore,         \* its entry in the Job Store
    ltext,          \* its video_data["text"]
    lsubtitles,     \* its video_data["subtitles"]
    lframes         \* the number of frames it recovered

legacyVars == <<lpc, lstore, ltext, lsubtitles, lframes>>

VARIABLES
    sockState,      \* each socket's life: "new", "open", "broken", "rejected", "refused", "closed"
    first,          \* the first message each socket received
    fan,            \* the broadcast_to_task call in progress (see IdleFan)
    sampler,        \* one run of the frame sampler (see IdleSampler)
    probe           \* one strategy decision of the engine (see IdleProbe)

hubVars == <<sockState, first, fan>>
auxVars == <<hubVars, sampler, probe>>

pipeVars == <<pc, step, store, text, subtitles, vmeta, frames, gets, engine, result,
              uploaded, excType, cause, calls, lastProgress, terminalEvents>>
wsVars == <<connections, sockTask>>

NoEngine == [recipe |-> NoRecipe, calls |-> 0, path |-> "none", strategy |-> "none",
             images |-> 0, firstFailed |-> FALSE, hadText |-> FALSE]

PipeInit ==
    /\ pc = "idle"
    /\ step = 0
    /\ store = PendingEntry
    /\ text = NoText
    /\ subtitles = NoText
    /\ vmeta = "absent"
    /\ frames = 0
    /\ engine = NoEngine
    /\ result = NoRecipe
    /\ uploaded = FALSE
    /\ excType = "none"
    /\ cause = "none"
    /\ gets = [caption |-> 0, media |-> 0]
    /\ calls = 0
    /\ lastProgress = NoEvent
    /\ terminalEvents = <<>>

WsInit ==
    /\ bus = <<>>
    /\ connections = [k \in {} |-> {}]
    /\ sockTask = [w \in Sockets |-> "none"]

\* ------------------------------------------------------------- publishing
\* publish_websocket_update: redis_client.publish may raise, which is
\* logged and swallowed.  A published message is lost when the listener's
\* buffer is full (pub/sub keeps nothing for a slow consumer).
Enqueue(q, ev) == IF Len(q) < MaxBus THEN Append(q, ev) ELSE q

\* (variant: the exception is swallowed and nothing is stored)
RaiseSwallowed(t, why) ==
    /\ excType' = t
    /\ cause' = IF cause = "none" THEN why ELSE cause
    /\ pc' = "swallowed"

\* Entering an except clause of scrape_tiktok_async.
Raise(t, why) ==
    /\ excType' = t
    /\ cause' = IF cause = "none" THEN why ELSE cause
    /\ pc' = "h_store"

\* (variant: a failing publish lets its exception out)
PublishRaisesOnFailure(ok) == ~ok

\* publish_websocket_update, the except clause: whatever publish raises
\* is logged, nothing leaves the function.
PublishRaises(ok) == FALSE

\* publish_websocket_update(task_id, type, data) and the step after it.
PublishWebsocketUpdate(ev, next) ==
    \E ok \in BOOLEAN :
        /\ IF ok
           THEN /\ bus' = Enqueue(bus, ev)
                /\ lastProgress' = IF ev.type = "progress" THEN ev ELSE lastProgress
                /\ terminalEvents' = IF ev.type = "progress" THEN terminalEvents
                                     ELSE Append(terminalEvents, ev)
           ELSE UNCHANGED <<bus, lastProgress, terminalEvents>>
        /\ IF PublishRaises(ok)
           THEN Raise("Exception", "publish")
           ELSE /\ pc' = next
                /\ UNCHANGED <<excType, cause>>

\* -------------------------------------------------------------- submission
UrlSamples == {[len |-> 0, strip |-> 0], [len |-> 3, strip |-> 0], [len |-> 30, strip |-> 30]}

\* POST /scrape/async: an empty or blank url is answered 422, no task is made.
Submit ==
    /\ pc = "idle"
    /\ \E url \in UrlSamples :
          /\ pc' = IF url.len = 0 \/ url.strip = 0 THEN "rejected" ELSE "queued"
          /\ cause' = IF url.len = 0 \/ url.strip = 0 THEN "validation" ELSE cause
    /\ UNCHANGED <<step, store, text, subtitles, vmeta, frames, gets, engine, result, uploaded,
                   excType, calls, lastProgress, terminalEvents, bus>>
    /\ UNCHANGED wsVars
    /\ UNCHANGED legacyVars
    /\ UNCHANGED auxVars

\* A worker takes the task; progress_data of step 1 is built.
StartTask ==
    /\ pc = "queued"
    /\ pc' = "progress_store"
    /\ step' = 1
    /\ UNCHANGED <<store, text, subtitles, vmeta, frames, gets, engine, result, uploaded,
                   excType, cause, calls, lastProgress, terminalEvents, bus>>
    /\ UNCHANGED wsVars
    /\ UNCHANGED legacyVars
    /\ UNCHANGED auxVars

\* self.update_state(state='PROGRESS', meta=progress_data).  The record of
\* what the engine did is kept for one step only; `result` carries the recipe on.
StoreProgress ==
    /\ pc = "progress_store"
    /\ store' = ProgressEntry(ProgressData(step))
    /\ pc' = "progress_pub"
    /\ engine' = NoEngine
    /\ UNCHANGED <<step, text, subtitles, vmeta, frames, gets, result, uploaded,
                   excType, cause, calls, lastProgress, terminalEvents, bus>>
    /\ UNCHANGED wsVars
    /\ UNCHANGED legacyVars
    /\ UNCHANGED auxVars

\* publish_websocket_update(task_id, "progress", progress_data)
PublishProgress ==
    /\ pc = "progress_pub"
    /\ PublishWebsocketUpdate(ProgressEvent(ProgressData(step)), AfterProgress(step))
    /\ step' = IF AfterProgress(step) = "progress_store" THEN step + 1 ELSE step
    /\ UNCHANGED <<store, text, subtitles, vmeta, frames, gets, engine, result, uploaded,
                   calls>>
    /\ UNCHANGED wsVars
    /\ UNCHANGED legacyVars
    /\ UNCHANGED auxVars

\* TikTokScraper(...): building the services may raise (a missing key).
InitScraper ==
    /\ pc = "init_scraper"
    /\ \E ok \in BOOLEAN :
          IF ok THEN /\ pc' = "progress_store"
                     /\ step' = 2
                     /\ UNCHANGED <<excType, cause>>
          ELSE /\ Raise("Exception", "init")
               /\ UNCHANGED step
    /\ UNCHANGED <<store, text, subtitles, vmeta, frames, gets, engine, result, uploaded,
                   calls, lastProgress, terminalEvents, bus>>
    /\ UNCHANGED wsVars
    /\ UNCHANGED legacyVars
    /\ UNCHANGED auxVars

\* scrape_and_process, step 1 and 2: the provider call and the dataset
\* record.  cause keeps what the provider reported.
Acquire ==
    /\ pc = "acquire"
    /\ \E o \in ProviderOutcomes, t \in NarrationTexts :
          /\ calls' = calls + 1
          /\ cause' = IF o = "item" THEN cause ELSE o
          /\ IF DatasetItemCheck(o) = "raise"
             THEN /\ excType' = "TikTokScrapingError"
                  /\ pc' = "h_store"
                  /\ UNCHANGED <<text, step>>
             ELSE IF DatasetItemCheck(o) = "skip"
             THEN /\ pc' = "progress_store"
                  /\ step' = 5
                  /\ UNCHANGED <<text, excType>>
             ELSE /\ pc' = "subtitles"
                  /\ text' = t
                  /\ UNCHANGED <<step, excType>>
    /\ UNCHANGED <<store, subtitles, vmeta, frames, gets, engine, result, uploaded,
                   lastProgress, terminalEvents, bus>>
    /\ UNCHANGED wsVars
    /\ UNCHANGED legacyVars
    /\ UNCHANGED auxVars

\* scrape_and_process, step 3: extract_subtitles(item).  The evidence is
\* local to the run: it is gone when an exception unwinds.
Subtitles ==
    /\ pc = "subtitles"
    /\ \E vm \in {"absent", "null", "present"} :
       \E links \in (IF vm = "present" THEN SeqsUpTo(LinkOutcomes, MaxCaptionLinks) ELSE {<<>>}) :
       \E capText \in (IF TryLinks(links, 1, 0).found THEN CaptionTexts ELSE {NoText}) :
          LET r == ExtractSubtitles(vm, links, capText)
          IN /\ gets' = [gets EXCEPT !.caption = @ + r.gets]
             /\ IF r.raised
                THEN /\ Raise("TikTokScrapingError", "null_videometa")
                     /\ text' = NoText
                     /\ UNCHANGED <<subtitles, vmeta>>
                ELSE /\ subtitles' = r.text
                     /\ vmeta' = vm
                     /\ pc' = "frames"
                     /\ UNCHANGED <<text, excType, cause>>
    /\ UNCHANGED <<step, store, frames, engine, result, uploaded, calls,
                   lastProgress, terminalEvents, bus>>
    /\ UNCHANGED wsVars
    /\ UNCHANGED legacyVars
    /\ UNCHANGED auxVars

\* scrape_and_process, step 4: extract_frames(item)
Frames ==
    /\ pc = "frames"
    /\ \E f \in ItemShapes(vmeta) :
       \E dl \in (IF GetVideoUrl(vmeta, f) # "none" THEN DownloadOutcomes ELSE {"ok"}) :
       \E cov \in (IF f.coverUrl THEN CoverOutcomes ELSE {"fail"}) :
       \E yt \in (IF f.webVideoUrl /\ cov = "fail" THEN YtdlpOutcomes ELSE {"empty"}) :
       \E n \in (IF dl = "ok" /\ yt = "ok" THEN 0..MaxFramesOut ELSE {0}) :
          LET r == ExtractFrames(vmeta, f, dl, cov, yt, n)
          IN IF r.raised
             THEN /\ Raise("TikTokScrapingError", r.cause)
                  /\ text' = NoText
                  /\ subtitles' = NoText
                  /\ vmeta' = "absent"
                  /\ gets' = [caption |-> 0, media |-> 0]
                  /\ UNCHANGED frames
             ELSE /\ frames' = r.frames
                  /\ gets' = [gets EXCEPT !.media = @ + r.gets]
                  /\ vmeta' = "absent"
                  /\ pc' = "reconstruct"
                  /\ UNCHANGED <<text, subtitles, excType, cause>>
    /\ UNCHANGED <<step, store, engine, result, uploaded, calls,
                   lastProgress, terminalEvents, bus>>
    /\ UNCHANGED wsVars
    /\ UNCHANGED legacyVars
    /\ UNCHANGED auxVars

\* scrape_and_process, step 5: process_video_content, then the return.
\* The evidence is consumed here; engine records what the call did.
Reconstruct ==
    /\ pc = "reconstruct"
    /\ \E o1 \in (IF ProcessVideoContent(text, subtitles, frames, CallRaises, CallRaises).calls > 0
                  THEN ModelOutcomes ELSE {CallRaises}) :
       \E o2 \in (IF ProcessVideoContent(text, subtitles, frames, o1, CallRaises).calls > 1
                  THEN ModelOutcomes ELSE {CallRaises}) :
          /\ engine' = ProcessVideoContent(text, subtitles, frames, o1, o2)
          /\ result' = engine'.recipe
    /\ pc' = "progress_store"
    /\ step' = 5
    /\ text' = NoText
    /\ subtitles' = NoText
    /\ vmeta' = "absent"
    /\ frames' = 0
    /\ gets' = [caption |-> 0, media |-> 0]
    /\ UNCHANGED <<store, uploaded, excType, cause, calls, lastProgress, terminalEvents, bus>>
    /\ UNCHANGED wsVars
    /\ UNCHANGED legacyVars
    /\ UNCHANGED auxVars

\* upload_recipe raises on a result without a recipe (None.get), and
\* whenever the external store fails.  Either way `result` is replaced by a
\* summary dict: the recipe is gone.
Upload ==
    /\ pc = "upload"
    /\ \E ok \in BOOLEAN :
          LET stored == ok /\ result # NoRecipe
          IN /\ uploaded' = stored
             /\ pc' = IF stored THEN "pub_completion" ELSE "pub_upload_error"
             /\ cause' = IF stored THEN cause
                        ELSE IF result = NoRecipe THEN "upload_no_recipe" ELSE "upload"
    /\ result' = NoRecipe
    /\ UNCHANGED <<step, store, text, subtitles, vmeta, frames, gets, engine, excType, calls,
                   lastProgress, terminalEvents, bus>>
    /\ UNCHANGED wsVars
    /\ UNCHANGED legacyVars
    /\ UNCHANGED auxVars

PublishCompletion ==
    /\ pc = "pub_completion"
    /\ PublishWebsocketUpdate(CompletionEvent, "log_success")
    /\ UNCHANGED <<step, store, text, subtitles, vmeta, frames, gets, engine, result, uploaded,
                   calls>>
    /\ UNCHANGED wsVars
    /\ UNCHANGED legacyVars
    /\ UNCHANGED auxVars

PublishUploadError ==
    /\ pc = "pub_upload_error"
    /\ PublishWebsocketUpdate(UploadErrorEvent, "log_success")
    /\ UNCHANGED <<step, store, text, subtitles, vmeta, frames, gets, engine, result, uploaded,
                   calls>>
    /\ UNCHANGED wsVars
    /\ UNCHANGED legacyVars
    /\ UNCHANGED auxVars

\* task_logger.log_success(...) writes the log file and may raise.
LogSuccess ==
    /\ pc = "log_success"
    /\ \E ok \in BOOLEAN :
          IF ok THEN /\ pc' = "finalize"
                     /\ UNCHANGED <<excType, cause>>
          ELSE Raise("Exception", "log")
    /\ UNCHANGED <<step, store, text, subtitles, vmeta, frames, gets, engine, result, uploaded,
                   calls, lastProgress, terminalEvents, bus>>
    /\ UNCHANGED wsVars
    /\ UNCHANGED legacyVars
    /\ UNCHANGED auxVars

\* finalize_task_log(task_id, "SUCCESS", ...) writes the log file and may raise.
FinalizeLog ==
    /\ pc = "finalize"
    /\ \E ok \in BOOLEAN :
          IF ok THEN /\ pc' = "return"
                     /\ UNCHANGED <<excType, cause>>
          ELSE Raise("Exception", "log")
    /\ UNCHANGED <<step, store, text, subtitles, vmeta, frames, gets, engine, result, uploaded,
                   calls, lastProgress, terminalEvents, bus>>
    /\ UNCHANGED wsVars
    /\ UNCHANGED legacyVars
    /\ UNCHANGED auxVars

\* `return result`: Celery stores the returned dict with state SUCCESS.
ReturnResult ==
    /\ pc = "return"
    /\ store' = SuccessEntry(uploaded)
    /\ pc' = "done"
    /\ UNCHANGED <<step, text, subtitles, vmeta, frames, gets, engine, result, uploaded,
                   excType, cause, calls, lastProgress, terminalEvents, bus>>
    /\ UNCHANGED wsVars
    /\ UNCHANGED legacyVars
    /\ UNCHANGED auxVars

\* except clause: self.update_state(state=states.FAILURE, meta=error_data)
HandlerStore ==
    /\ pc = "h_store"
    /\ store' = FailureEntry(HandlerCode(excType))
    /\ pc' = "h_pub"
    /\ UNCHANGED <<step, text, subtitles, vmeta, frames, gets, engine, result, uploaded,
                   excType, cause, calls, lastProgress, terminalEvents, bus>>
    /\ UNCHANGED wsVars
    /\ UNCHANGED legacyVars
    /\ UNCHANGED auxVars

\* except clause: publish the error, finalize the log, raise Ignore().
HandlerPublish ==
    /\ pc = "h_pub"
    /\ PublishWebsocketUpdate(ErrorEvent(HandlerCode(excType)), HandlerExit)
    /\ UNCHANGED <<step, store, text, subtitles, vmeta, frames, gets, engine, result, uploaded,
                   calls>>
    /\ UNCHANGED wsVars
    /\ UNCHANGED legacyVars
    /\ UNCHANGED auxVars

\* ------------------------------------------------------------ broadcaster
\* The Job Store entry of any task id: Celery reports PENDING for an id it
\* has never seen.
JobEntry(j) == IF j = TaskId THEN store ELSE PendingEntry

\* _verify_task_ownership: True for every state the backend reports, False
\* only when reading the backend raises.
VerifyTaskOwnership(e, backendUp) == backendUp /\ e.state \in {"PENDING", "PROGRESS", "SUCCESS", "FAILURE"}

AddConnection(c, j, w) ==
    [k \in (DOMAIN c) \cup {j} |-> IF k = j THEN (IF j \in DOMAIN c THEN c[j] ELSE {}) \cup {w} ELSE c[k]]

\* (variant: disconnect drops the job's whole set)
DiscardConnectionsAll(c, j, ws) ==
    IF j \notin DOMAIN c THEN c
    ELSE [k \in DOMAIN c \ {j} |-> c[k]]

\* discard the sockets of ws from the set of j, delete the key when the set is empty
DiscardConnections(c, j, ws) ==
    IF j \notin DOMAIN c THEN c
    ELSE [k \in {x \in DOMAIN c : x # j \/ c[j] \ ws # {}} |-> IF k = j THEN c[j] \ ws ELSE c[k]]

\* WebSocketTaskManager.connect
Connect(w, j) ==
    /\ sockTask[w] = "none"
    /\ \E backendUp \in BOOLEAN :
          IF VerifyTaskOwnership(JobEntry(j), backendUp)
          THEN /\ connections' = AddConnection(connections, j, w)
               /\ sockTask' = [sockTask EXCEPT ![w] = j]
          ELSE UNCHANGED <<connections, sockTask>>
    /\ UNCHANGED pipeVars
    /\ UNCHANGED legacyVars
    /\ UNCHANGED auxVars
    /\ UNCHANGED bus

\* WebSocketTaskManager.disconnect, called from the endpoint's finally
Disconnect(w) ==
    /\ sockTask[w] # "none"
    /\ connections' = DiscardConnections(connections, sockTask[w], {w})
    /\ sockTask' = [sockTask EXCEPT ![w] = "none"]
    /\ UNCHANGED pipeVars
    /\ UNCHANGED legacyVars
    /\ UNCHANGED auxVars
    /\ UNCHANGED bus

\* listen_for_updates reads one message and broadcast_to_task fans it out;
\* the sockets whose send fails are removed.
Listen ==
    /\ bus # <<>>
    /\ bus' = Tail(bus)
    /\ LET j == Head(bus).task_id
       IN IF j \in DOMAIN connections
          THEN \E dead \in SUBSET connections[j] :
                  connections' = DiscardConnections(connections, j, dead)
          ELSE UNCHANGED connections
    /\ UNCHANGED sockTask
    /\ UNCHANGED pipeVars
    /\ UNCHANGED legacyVars
    /\ UNCHANGED auxVars


\* ------------------------------------------- the superseded task (src/tasks.py)
\* The meta of each update_state(state='PROGRESS', ...) of the task, by the
\* place it is written from.
LegacyProgressData(at) ==
    IF at = "w1" THEN [step |-> 1, total_steps |-> 5]
    ELSE IF at = "w2" THEN [step |-> 2, total_steps |-> 4]
    ELSE IF at = "w3" THEN [step |-> 3, total_steps |-> 4]
    ELSE IF at = "w4" THEN [step |-> 4, total_steps |-> 5]
    ELSE IF at = "w4b" THEN [step |-> 4, total_steps |-> 5]
    ELSE [step |-> 5, total_steps |-> 5]

LegacyAfterWrite(at) ==
    IF at = "w1" THEN "token"
    ELSE IF at = "w2" THEN "w3"
    ELSE IF at = "w3" THEN "scrape"
    ELSE IF at = "w4" THEN "subtitles"
    ELSE IF at = "w4b" THEN "frames"
    ELSE "ai"

mainVars == <<pipeVars, bus, wsVars>>

LegacyInit ==
    /\ lpc = "idle"
    /\ lstore = PendingEntry
    /\ ltext = NoText
    /\ lsubtitles = NoText
    /\ lframes = 0

LegacyStart ==
    /\ lpc = "idle"
    /\ lpc' = "w1"
    /\ UNCHANGED <<lstore, ltext, lsubtitles, lframes>>
    /\ UNCHANGED mainVars
    /\ UNCHANGED auxVars

LegacyStoreProgress ==
    /\ lpc \in {"w1", "w2", "w3", "w4", "w4b", "w5"}
    /\ lstore' = ProgressEntry(LegacyProgressData(lpc))
    /\ lpc' = LegacyAfterWrite(lpc)
    /\ UNCHANGED <<ltext, lsubtitles, lframes>>
    /\ UNCHANGED mainVars
    /\ UNCHANGED auxVars

\* the environment has no APIFY_API_TOKEN: ValueError
LegacyToken ==
    /\ lpc = "token"
    /\ \E ok \in BOOLEAN : lpc' = IF ok THEN "w2" ELSE "handler"
    /\ UNCHANGED <<lstore, ltext, lsubtitles, lframes>>
    /\ UNCHANGED mainVars
    /\ UNCHANGED auxVars

\* the actor call and the dataset record; without a dataset or a record
\* the task returns its empty video_data
LegacyScrape ==
    /\ lpc = "scrape"
    /\ \E o \in ProviderOutcomes, t \in NarrationTexts :
          /\ lpc' = IF o \in {"raise", "not_found", "item_error"} THEN "handler"
                    ELSE IF o \in {"no_dataset", "empty_dataset"} THEN "return"
                    ELSE "w4"
          /\ ltext' = IF o = "item" THEN t ELSE ltext
    /\ UNCHANGED <<lstore, lsubtitles, lframes>>
    /\ UNCHANGED mainVars
    /\ UNCHANGED auxVars

\* the caption loop, then the search for a media URL
LegacySubtitles ==
    /\ lpc = "subtitles"
    /\ \E vm \in {"absent", "null", "present"} :
       \E links \in (IF vm = "present" THEN SeqsUpTo(LinkOutcomes, MaxCaptionLinks) ELSE {<<>>}) :
       \E capText \in (IF TryLinks(links, 1, 0).found THEN CaptionTexts ELSE {NoText}) :
       \E f \in ItemFields :
          LET r == ExtractSubtitles(vm, links, capText)
          IN /\ lpc' = IF r.raised THEN "handler"
                       ELSE IF GetVideoUrl(vm, f) # "none" THEN "w4b" ELSE "w5"
             /\ lsubtitles' = IF r.raised THEN lsubtitles ELSE r.text
    /\ UNCHANGED <<lstore, ltext, lframes>>
    /\ UNCHANGED mainVars
    /\ UNCHANGED auxVars

\* download_and_extract_frames returns [] on every failure
LegacyFrames ==
    /\ lpc = "frames"
    /\ \E n \in 0..MaxFramesOut : lframes' = n
    /\ lpc' = "w5"
    /\ UNCHANGED <<lstore, ltext, lsubtitles>>
    /\ UNCHANGED mainVars
    /\ UNCHANGED auxVars

\* process_video_with_openai returns a recipe on every path
LegacyAI ==
    /\ lpc = "ai"
    /\ lpc' = "return"
    /\ UNCHANGED <<lstore, ltext, lsubtitles, lframes>>
    /\ UNCHANGED mainVars
    /\ UNCHANGED auxVars

LegacyReturn ==
    /\ lpc = "return"
    /\ lstore' = SuccessEntry(TRUE)
    /\ lpc' = "done"
    /\ UNCHANGED <<ltext, lsubtitles, lframes>>
    /\ UNCHANGED mainVars
    /\ UNCHANGED auxVars

\* except Exception: update_state(FAILURE), raise Ignore()
LegacyHandler ==
    /\ lpc = "handler"
    /\ lstore' = FailureEntry("")
    /\ lpc' = "done"
    /\ UNCHANGED <<ltext, lsubtitles, lframes>>
    /\ UNCHANGED mainVars
    /\ UNCHANGED auxVars

LegacyNext ==
    \/ LegacyStart
    \/ LegacyStoreProgress
    \/ LegacyToken
    \/ LegacyScrape
    \/ LegacySubtitles
    \/ LegacyFrames
    \/ LegacyAI
    \/ LegacyReturn
    \/ LegacyHandler

\* ------------------------------------------- the broadcaster, step by step
\* HubSpec follows broadcast_to_task send by send: the call suspends inside
\* every send_json, and the endpoints of the same event loop (connect,
\* disconnect) run in between.  A socket is used once; its endpoint keeps
\* its task id (the path parameter) after it has closed.

\* The user of each socket's token (main.py: payload.get("sub")) and the
\* user whose request made the task TaskId (main.py: verify_token_sync).
SocketUser(w) == IF w = "w1" THEN "u1" ELSE "u2"
JobOwner == "u1"

\* What a socket received: the status replayed by connect, or an event
\* fanned out by the listener.
NoMsg == [kind |-> "none", type |-> "", status |-> "", step |-> 0, total |-> 0]
Replay(m) == [kind |-> "replay", type |-> m.type, status |-> m.status, step |-> m.step, total |-> m.total]
Live(ev) == [kind |-> "live", type |-> ev.type, status |-> ev.status, step |-> ev.step, total |-> ev.total]

\* broadcast_to_task's locals: the event, the copy of the job's set it
\* iterates over, the sockets still to be sent to, those sent to, and the
\* `disconnected` set.  phase is "idle", "sending", or "raised" once the
\* call has ended in a KeyError.
IdleFan == [phase |-> "idle", job |-> "none", ev |-> NoEvent, copy |-> {}, todo |-> {}, sent |-> {}, failed |-> {}]

HubInit ==
    /\ sockState = [w \in Sockets |-> "new"]
    /\ first = [w \in Sockets |-> NoMsg]
    /\ fan = IdleFan

jobVars == <<text, subtitles, vmeta, frames, gets, engine, result, excType, cause,
             calls, lastProgress, terminalEvents>>

\* POST /scrape/async with a valid url, and a worker taking the task.
JobSubmit ==
    /\ pc = "idle"
    /\ pc' = "progress_store"
    /\ step' = 1
    /\ UNCHANGED <<store, uploaded, bus>>
    /\ UNCHANGED jobVars
    /\ UNCHANGED wsVars
    /\ UNCHANGED legacyVars
    /\ UNCHANGED auxVars

\* Where the job goes after progress step k, as the broadcaster sees it:
\* the stage after the step raises or not; the upload after step 5 works
\* or not.
JobAfterProgress(k) ==
    IF AfterProgress(k) = "upload" THEN {"pub_completion", "pub_upload_error"}
    ELSE IF AfterProgress(k) = "progress_store" THEN {"progress_store"}
    ELSE {"progress_store", "h_store"}

\* publish_websocket_update(task_id, "progress", progress_data), then the
\* stage that follows.
JobPublishProgress ==
    /\ pc = "progress_pub"
    /\ \E ok \in BOOLEAN : bus' = IF ok THEN Enqueue(bus, ProgressEvent(ProgressData(step))) ELSE bus
    /\ \E nxt \in JobAfterProgress(step) :
          /\ pc' = nxt
          /\ step' = IF nxt = "progress_store" THEN step + 1 ELSE step
          /\ uploaded' = (nxt = "pub_completion")
    /\ UNCHANGED store
    /\ UNCHANGED jobVars
    /\ UNCHANGED wsVars
    /\ UNCHANGED legacyVars
    /\ UNCHANGED auxVars

\* publish_websocket_update(task_id, "completion", ...) after the upload,
\* or (task_id, "error", ...) after its failure; then the log calls.
JobPublishTerminal ==
    /\ pc \in {"pub_completion", "pub_upload_error"}
    /\ \E ok \in BOOLEAN :
          bus' = IF ok THEN Enqueue(bus, IF pc = "pub_completion" THEN CompletionEvent ELSE UploadErrorEvent)
                 ELSE bus
    /\ pc' = "return"
    /\ UNCHANGED <<step, store, uploaded>>
    /\ UNCHANGED jobVars
    /\ UNCHANGED wsVars
    /\ UNCHANGED legacyVars
    /\ UNCHANGED auxVars

\* except clause: publish the error, raise Ignore().
JobHandlerPublish ==
    /\ pc = "h_pub"
    /\ \E ok \in BOOLEAN : bus' = IF ok THEN Enqueue(bus, ErrorEvent(HandlerCode(excType))) ELSE bus
    /\ pc' = HandlerExit
    /\ UNCHANGED <<step, store, uploaded>>
    /\ UNCHANGED jobVars
    /\ UNCHANGED wsVars
    /\ UNCHANGED legacyVars
    /\ UNCHANGED auxVars

\* WebSocketTaskManager.connect after accept(): the ownership check, the
\* refusal (error message, close 4003) or the admission, and the status
\* replay.  Nothing is awaited between the admission and the call of
\* send_json, so the status is the first message written to the socket; a
\* send that fails is swallowed and leaves the socket admitted.  The
\* backend is read within one synchronous stretch: it answers both reads or
\* neither.
HubConnect(w, j) ==
    /\ sockState[w] = "new"
    /\ sockTask' = [sockTask EXCEPT ![w] = j]
    /\ \E backendUp \in BOOLEAN :
          IF VerifyTaskOwnership(JobEntry(j), backendUp)
          THEN \E sendOk \in BOOLEAN :
                  /\ connections' = AddConnection(connections, j, w)
                  /\ sockState' = [sockState EXCEPT ![w] = IF sendOk THEN "open" ELSE "broken"]
                  /\ first' = [first EXCEPT ![w] = IF sendOk THEN Replay(CurrentStatus(JobEntry(j))) ELSE @]
          ELSE /\ sockState' = [sockState EXCEPT ![w] = "rejected"]
               /\ UNCHANGED <<connections, first>>
    /\ UNCHANGED <<fan, sampler, probe, bus>>
    /\ UNCHANGED pipeVars
    /\ UNCHANGED legacyVars

\* The endpoint's finally: WebSocketTaskManager.disconnect.  It runs when
\* the client has gone, and also after a refused connect.
HubDisconnect(w) ==
    /\ sockState[w] \in {"open", "broken", "rejected"}
    /\ connections' = DiscardConnections(connections, sockTask[w], {w})
    /\ sockState' = [sockState EXCEPT ![w] = IF @ = "rejected" THEN "refused" ELSE "closed"]
    /\ UNCHANGED <<sockTask, first, fan, sampler, probe, bus>>
    /\ UNCHANGED pipeVars
    /\ UNCHANGED legacyVars

\* listen_for_updates takes one message; broadcast_to_task returns at once
\* when the job has no key, else copies the job's set.
ListenRead ==
    /\ fan.phase # "sending"
    /\ bus # <<>>
    /\ bus' = Tail(bus)
    /\ LET j == Head(bus).task_id
       IN fan' = IF j \in DOMAIN connections
                 THEN [phase |-> "sending", job |-> j, ev |-> Head(bus), copy |-> connections[j],
                       todo |-> connections[j], sent |-> {}, failed |-> {}]
                 ELSE IdleFan
    /\ UNCHANGED <<connections, sockTask, sockState, first, sampler, probe>>
    /\ UNCHANGED pipeVars
    /\ UNCHANGED legacyVars

\* (variant: the first failed send ends the loop)
AfterSendAbort(todo, w, ok) == IF ok THEN todo \ {w} ELSE {}

\* The loop goes on after a send, failed or not.
AfterSend(todo, w, ok) == todo \ {w}

\* One turn of the loop: send_json to w.  A send on a socket that is closed
\* or broken raises; a send on an open one may find it broken.
FanSend(w) ==
    /\ fan.phase = "sending"
    /\ w \in fan.todo
    /\ \E ok \in (IF sockState[w] = "open" THEN BOOLEAN ELSE {FALSE}) :
          /\ fan' = [fan EXCEPT !.todo = AfterSend(fan.todo, w, ok),
                                !.sent = IF ok THEN @ \cup {w} ELSE @,
                                !.failed = IF ok THEN @ ELSE @ \cup {w}]
          /\ sockState' = [sockState EXCEPT ![w] = IF ~ok /\ @ = "open" THEN "broken" ELSE @]
          /\ first' = [first EXCEPT ![w] = IF ok /\ @ = NoMsg THEN Live(fan.ev) ELSE @]
    /\ UNCHANGED <<connections, sockTask, sampler, probe, bus>>
    /\ UNCHANGED pipeVars
    /\ UNCHANGED legacyVars

\* After the loop: self.connections[task_id] is read without a check, once
\* per failed socket and once more for the emptiness test.  When the key
\* has been deleted meanwhile the read raises KeyError out of
\* broadcast_to_task; the listener logs it and takes the next message.
FanCleanup ==
    /\ fan.phase = "sending"
    /\ fan.todo = {}
    /\ IF fan.job \in DOMAIN connections
       THEN /\ connections' = DiscardConnections(connections, fan.job, fan.failed)
            /\ fan' = IdleFan
       ELSE /\ UNCHANGED connections
            /\ fan' = [IdleFan EXCEPT !.phase = "raised"]
    /\ UNCHANGED <<sockTask, sockState, first, sampler, probe, bus>>
    /\ UNCHANGED pipeVars
    /\ UNCHANGED legacyVars

HubNext ==
    \/ JobSubmit
    \/ StoreProgress
    \/ JobPublishProgress
    \/ JobPublishTerminal
    \/ ReturnResult
    \/ HandlerStore
    \/ JobHandlerPublish
    \/ \E w \in Sockets, j \in JobIds : HubConnect(w, j)
    \/ \E w \in Sockets : HubDisconnect(w)
    \/ ListenRead
    \/ \E w \in Sockets : FanSend(w)
    \/ FanCleanup

\* The record of one strategy decision (see ProbeSpec), before it is taken.
IdleProbe ==
    [done |-> FALSE, subtitles |-> NoText, text |-> NoText, frames |-> <<>>, scored |-> FALSE,
     score |-> 0, strategy |-> "none", images |-> <<>>, engine |-> NoEngine,
     quality |-> 0, lengthBonus |-> 0]

\* ------------------------------------------------------- the frame sampler
\* SamplerSpec runs _extract_frames_intelligently on one video: its frame
\* count, its frame rate, the processor's max_frames, and the number of
\* frames that can be read (a truncated file stops giving frames).
\* Whole numbers stand for the floats of the code: int(n * 0.05),
\* int(n * (1 - 0.05)), int(max_frames * 0.2) and int(start + i * step) are
\* the floored quotients below for every input within the bounds here.
Max(a, b) == IF a > b THEN a ELSE b

StartFrame(n) == (n * SkipPercent) \div 100
EndFrame(n) == (n * (100 - SkipPercent)) \div 100

\* duration = total_frames / fps if fps > 0 else 0, against the two limits
SamplingStrategy(n, fps) ==
    IF fps = 0 \/ n <= DenseLimit * fps THEN "dense"
    ELSE IF n <= MediumLimit * fps THEN "cooking_focused"
    ELSE "strategic"

GetDenseFramePositions(start, end, maxf) ==
    LET interval == Max(1, (end - start) \div maxf)
    IN SelectSeq([i \in 1..maxf |-> start + (i - 1) * interval], LAMBDA q : q < end)

GetEvenlySpacedPositions(start, end, count) ==
    IF count <= 0 \/ start >= end THEN <<>>
    ELSE IF count = 1 THEN <<start + (end - start) \div 2>>
    ELSE [i \in 1..count |-> start + ((i - 1) * (end - start)) \div (count - 1)]

GetCookingFocusedPositions(start, end, maxf) ==
    LET useful == end - start
        firstQuarter == GetEvenlySpacedPositions(start, start + useful \div 4, Max(1, (maxf * 2) \div 10))
        middle == GetEvenlySpacedPositions(start + useful \div 4, start + (3 * useful) \div 4,
                                           Max(1, (maxf * 6) \div 10))
        lastQuarter == GetEvenlySpacedPositions(start + (3 * useful) \div 4, end,
                                                Max(1, maxf - (Len(firstQuarter) + Len(middle))))
    IN firstQuarter \o middle \o lastQuarter

GetStrategicLongVideoPositions(start, end, maxf) ==
    LET useful == end - start
        beginning == GetEvenlySpacedPositions(start, start + useful \div 10, Max(1, maxf \div 10))
        middle == GetEvenlySpacedPositions(start + useful \div 10, start + (9 * useful) \div 10,
                                           Max(1, (maxf * 8) \div 10))
        ending == GetEvenlySpacedPositions(start + (9 * useful) \div 10, end,
                                           Max(1, maxf - (Len(beginning) + Len(middle))))
    IN beginning \o middle \o ending

FramePositions(n, fps, maxf) ==
    IF SamplingStrategy(n, fps) = "dense" THEN GetDenseFramePositions(StartFrame(n), EndFrame(n), maxf)
    ELSE IF SamplingStrategy(n, fps) = "cooking_focused"
    THEN GetCookingFocusedPositions(StartFrame(n), EndFrame(n), maxf)
    ELSE GetStrategicLongVideoPositions(StartFrame(n), EndFrame(n), maxf)

\* sorted(frame_positions)
RECURSIVE Insert(_, _)
Insert(q, x) ==
    IF q = <<>> THEN <<x>>
    ELSE IF x < Head(q) THEN <<x>> \o q
    ELSE <<Head(q)>> \o Insert(Tail(q), x)

RECURSIVE Sorted(_)
Sorted(q) == IF q = <<>> THEN <<>> ELSE Insert(Sorted(Tail(q)), Head(q))

\* (variant: every frame that can be read is kept)
ExtractAtUncapped(positions, got, readable, maxf) ==
    SelectSeq(positions, LAMBDA q : q < readable)

\* The extraction loop: a frame is kept when cap.read() gives one and
\* fewer than max_frames are in hand.
RECURSIVE ExtractAt(_, _, _, _)
ExtractAt(positions, got, readable, maxf) ==
    IF positions = <<>> THEN got
    ELSE IF Head(positions) < readable /\ Len(got) < maxf
    THEN ExtractAt(Tail(positions), Append(got, Head(positions)), readable, maxf)
    ELSE ExtractAt(Tail(positions), got, readable, maxf)

IdleSampler ==
    [done |-> FALSE, total |-> 0, fps |-> 0, maxf |-> 1, readable |-> 0,
     strategy |-> "none", positions |-> <<>>, selected |-> <<>>]

FpsSamples == {0, 1, 2}
MaxFramesSamples == {1, 2, 5, 20}

SamplerInputs ==
    {[IdleSampler EXCEPT !.total = n, !.fps = f, !.maxf = x, !.readable = IF truncated THEN n \div 2 ELSE n] :
        n \in 0..MaxTotalFrames, f \in FpsSamples, x \in MaxFramesSamples,
        truncated \in BOOLEAN}

SamplerInit ==
    /\ PipeInit /\ WsInit /\ LegacyInit /\ HubInit
    /\ probe = IdleProbe
    /\ sampler \in SamplerInputs

\* _extract_frames_intelligently
ExtractFramesIntelligently ==
    /\ ~sampler.done
    /\ sampler' = [sampler EXCEPT
                      !.done = TRUE,
                      !.strategy = SamplingStrategy(sampler.total, sampler.fps),
                      !.positions = FramePositions(sampler.total, sampler.fps, sampler.maxf),
                      !.selected = ExtractAt(Sorted(FramePositions(sampler.total, sampler.fps, sampler.maxf)),
                                             <<>>, sampler.readable, sampler.maxf)]
    /\ UNCHANGED <<pipeVars, bus, wsVars>>
    /\ UNCHANGED legacyVars
    /\ UNCHANGED <<hubVars, probe>>

SamplerNext == ExtractFramesIntelligently

\* ------------------------------------------------- one call of extract_frames
\* FetchSpec applies extract_frames to one scraped record: the shape of the
\* record, what each download answers, and the video behind the URL.

\* _extract_frames_from_file: the capture is sampled and released.
ExtractFramesFromFile(v) ==
    [v EXCEPT !.done = TRUE,
              !.strategy = SamplingStrategy(v.total, v.fps),
              !.positions = FramePositions(v.total, v.fps, v.maxf),
              !.selected = ExtractAt(Sorted(FramePositions(v.total, v.fps, v.maxf)),
                                     <<>>, v.readable, v.maxf)]

\* What a download can answer here: DownloadOutcomes, or a file that opens
\* and then fails while its frames are resized or encoded.
FetchOutcomes == DownloadOutcomes \cup {"decode_fail"}

\* The scratch file of _download_and_extract_frames.  NamedTemporaryFile
\* (delete=False) creates it before the body is streamed; video_path is
\* assigned after the streaming loop; the finally clause removes the file
\* only when video_path is set and the file exists, and swallows a failing
\* os.remove.  gone: the file was removed by someone else before the
\* finally clause ran.
ScratchAfterDownload(dl, gone, removeOk) ==
    LET created   == dl \in {"stream_fail", "open_fail", "decode_fail", "ok"}
        pathKnown == dl \in {"open_fail", "decode_fail", "ok"}
        exists    == created /\ ~gone
        removed   == pathKnown /\ exists /\ removeOk
    IN [created |-> created,
        left |-> exists /\ ~removed,
        removeCalled |-> pathKnown /\ exists,
        cleanupRaised |-> FALSE]

VideoSamples ==
    {v \in SamplerInputs : v.total \in {0, 31, MaxTotalFrames} /\ v.fps = 1 /\ v.maxf \in {5, 20}
                           /\ v.readable = v.total}

FetchCalls ==
    {x \in [vm : {"absent", "null", "present"}, item : ItemFields, dl : FetchOutcomes,
            cov : CoverOutcomes, yt : YtdlpOutcomes, gone : BOOLEAN, removeOk : BOOLEAN,
            video : VideoSamples] :
        /\ x.item \in ItemShapes(x.vm)
        /\ IF GetVideoUrl(x.vm, x.item) # "none"
           THEN x.cov = "fail" /\ x.yt = "empty"
           ELSE /\ x.dl = "ok" /\ ~x.gone /\ x.removeOk
                /\ ~x.item.coverUrl => x.cov = "fail"
                /\ (~x.item.webVideoUrl \/ x.cov = "ok") => x.yt = "empty"
        /\ (x.dl # "ok" \/ GetVideoUrl(x.vm, x.item) = "none") /\ x.yt # "ok"
               => x.video.total = 0 /\ x.video.maxf = 5}

IdleFetch(x) ==
    [done |-> FALSE, call |-> x, url |-> "none", raised |-> FALSE, frames |-> 0, gets |-> 0,
     scratch |-> ScratchAfterDownload("get_raises", FALSE, TRUE)]

FetchInit ==
    /\ PipeInit /\ WsInit /\ LegacyInit /\ HubInit
    /\ probe = IdleProbe
    /\ sampler \in {IdleFetch(x) : x \in FetchCalls}

\* extract_frames(item), with the download it makes
ExtractFramesCall ==
    /\ ~sampler.done
    /\ LET x == sampler.call
           u == GetVideoUrl(x.vm, x.item)
           n == Len(ExtractFramesFromFile(x.video).selected)
           r == ExtractFrames(x.vm, x.item, x.dl, x.cov, x.yt, n)
       IN sampler' = [sampler EXCEPT
                         !.done = TRUE,
                         !.url = u,
                         !.raised = r.raised,
                         !.frames = r.frames,
                         !.gets = r.gets,
                         !.scratch = IF u # "none"
                                     THEN ScratchAfterDownload(x.dl, x.gone, x.removeOk)
                                     ELSE @]
    /\ UNCHANGED <<pipeVars, bus, wsVars>>
    /\ UNCHANGED legacyVars
    /\ UNCHANGED <<hubVars, probe>>

FetchNext == ExtractFramesCall

\* ------------------------------------------------ the strategy, on its own
\* ProbeSpec applies the engine's decision to one input: a caption text, a
\* narration text and a list of frames, each frame known by its place in
\* the sampler's output.
\* Captions beside CaptionTexts: a 47-character caption full of keywords
\* and quantities ("2 Ei, 5g Salz, 9ml Öl mix in pan, 1 cup, 3 grad"), a
\* caption that scores exactly 80, one that scores exactly 50, and a short
\* caption padded with blanks.
DenseShortText == MkText(6, 47, 47, 6, 1, 4, 13, 1)
EdgeHighText == MkText(7, 242, 242, 9, 5, 0, 39, 1)
EdgeLowText == MkText(8, 129, 129, 4, 5, 0, 15, 16)
PaddedText == MkText(9, 60, 30, 1, 0, 0, 6, 1)
\* A long caption rich in every category (the parts sum to 110), and two
\* plain texts of exactly 200 and exactly 100 characters.
RichText == MkText(10, 336, 336, 20, 10, 8, 61, 3)
Len200Text == MkText(11, 200, 200, 0, 0, 0, 1, 1)
Len100Text == MkText(12, 100, 100, 0, 0, 0, 1, 1)

ProbeCaptions == CaptionTexts \cup {DenseShortText, EdgeHighText, EdgeLowText, PaddedText,
                                    RichText, Len200Text, Len100Text}

FrameList(n) == [i \in 1..n |-> i]

\* (variant: the last five frames are kept)
ReducedFramesLast(fs) == SubSeq(fs, Len(fs) - Min(Len(fs), ReducedFrameCap) + 1, Len(fs))

\* frames[:5]
ReducedFrames(fs) == SubSeq(fs, 1, Min(Len(fs), ReducedFrameCap))

\* _build_user_content: one image_url item per frame, in the list's order
BuildUserContentImages(fs) == [i \in 1..Len(fs) |-> fs[i]]

\* The images of the request process_video_content makes under a strategy.
RequestImages(strategy, fs) ==
    IF strategy = "text_only" THEN <<>>
    ELSE IF strategy = "reduced_frames" THEN BuildUserContentImages(ReducedFrames(fs))
    ELSE BuildUserContentImages(fs)

\* Whether _determine_processing_strategy gets as far as computing
\* subtitle_quality_score.
ScoreComputed(s) == ~(s.len = 0 \/ s.strip < MinSubtitleLen)

ProbeInputs ==
    {[IdleProbe EXCEPT !.subtitles = s, !.text = t, !.frames = FrameList(n)] :
        s \in ProbeCaptions, t \in NarrationTexts, n \in 0..MaxProbeFrames}

ProbeInit ==
    /\ PipeInit /\ WsInit /\ LegacyInit /\ HubInit
    /\ sampler = IdleSampler
    /\ probe \in ProbeInputs

\* process_video_content on the input, up to and including its first
\* request; score is subtitle_quality_score where it was computed.  quality
\* and lengthBonus are what _analyze_subtitle_quality gives for the caption
\* when called on its own.
Decide ==
    /\ ~probe.done
    /\ \E o1 \in {CallRaises, CallText(BareObject(GoodObj))} :
          probe' = [probe EXCEPT
                       !.done = TRUE,
                       !.scored = ScoreComputed(probe.subtitles),
                       !.score = IF ScoreComputed(probe.subtitles) THEN AnalyzeSubtitleQuality(probe.subtitles) ELSE 0,
                       !.quality = AnalyzeSubtitleQuality(probe.subtitles),
                       !.lengthBonus = LengthBonus(probe.subtitles.len),
                       !.strategy = DetermineProcessingStrategy(probe.subtitles),
                       !.images = RequestImages(DetermineProcessingStrategy(probe.subtitles), probe.frames),
                       !.engine = ProcessVideoContent(probe.text, probe.subtitles, Len(probe.frames), o1, CallRaises)]
    /\ UNCHANGED <<pipeVars, bus, wsVars>>
    /\ UNCHANGED legacyVars
    /\ UNCHANGED <<hubVars, sampler>>

ProbeNext == Decide

\* ------------------------------------------------- the parser, on its own
\* ParserSpec applies _parse_recipe_json to one response text.  A response
\* is told by what each strategy finds in it; the last pattern matches any
\* text holding a brace pair, so it matches whenever another strategy
\* applies.
StrategyFindings == {NoMatch, Invalid, Parsed(GoodObj), Parsed(NoTitleObj)}

ResponseTexts ==
    {MkContent(d, p1, p2, p3, p4) :
        d \in StrategyFindings, p1 \in StrategyFindings, p2 \in StrategyFindings,
        p3 \in StrategyFindings, p4 \in {x \in StrategyFindings : x # NoMatch}}
    \cup {ProseOnly}

IdleParser(c) == [done |-> FALSE, content |-> c, parsed |-> NoRecipe]

ParserInit ==
    /\ PipeInit /\ WsInit /\ LegacyInit /\ HubInit
    /\ sampler = IdleSampler
    /\ probe \in {IdleParser(c) : c \in ResponseTexts}

\* _parse_recipe_json(content)
ParseRecipeJsonCall ==
    /\ ~probe.done
    /\ probe' = [probe EXCEPT !.done = TRUE, !.parsed = ParseRecipeJson(probe.content)]
    /\ UNCHANGED <<pipeVars, bus, wsVars>>
    /\ UNCHANGED legacyVars
    /\ UNCHANGED <<hubVars, sampler>>

ParserNext == ParseRecipeJsonCall

\* ----------------------------------------------------------- specification
vars == <<pc, step, store, text, subtitles, vmeta, frames, gets, engine, result,
          uploaded, excType, cause, calls, lastProgress, terminalEvents,
          bus, connections, sockTask, lpc, lstore, ltext, lsubtitles, lframes,
          sockState, first, fan, sampler, probe>>

Init == PipeInit /\ WsInit /\ LegacyInit /\ HubInit /\ sampler = IdleSampler /\ probe = IdleProbe

Worker ==
    \/ StartTask
    \/ StoreProgress
    \/ PublishProgress
    \/ InitScraper
    \/ Acquire
    \/ Subtitles
    \/ Frames
    \/ Reconstruct
    \/ Upload
    \/ PublishCompletion
    \/ PublishUploadError
    \/ LogSuccess
    \/ FinalizeLog
    \/ ReturnResult
    \/ HandlerStore
    \/ HandlerPublish

Next ==
    \/ Submit
    \/ Worker
    \/ \E w \in Sockets, j \in JobIds : Connect(w, j)
    \/ \E w \in Sockets : Disconnect(w)
    \/ Listen

Spec == Init /\ [][Next]_vars

\* The job under a fair worker: a worker that holds a task keeps running it
\* (the pool gives the task a worker for its whole life and no step waits on
\* anything but a timeout).  Around it the listener drains the bus and one
\* subscriber connects to either job and disconnects, again and again.
Subscriber == "w1"

FairNext ==
    \/ Submit
    \/ Worker
    \/ \E j \in JobIds : Connect(Subscriber, j)
    \/ Disconnect(Subscriber)
    \/ Listen

FairSpec == Init /\ [][FairNext]_vars /\ WF_vars(Worker)

LegacySpec == Init /\ [][LegacyNext]_vars

HubSpec == Init /\ [][HubNext]_vars

ProbeSpec == ProbeInit /\ [][ProbeNext]_vars

SamplerSpec == SamplerInit /\ [][SamplerNext]_vars

FetchSpec == FetchInit /\ [][FetchNext]_vars

ParserSpec == ParserInit /\ [][ParserNext]_vars

\* ------------------------------------------------------------------ claims
Terminal == {"SUCCESS", "FAILURE"}

\* C1: every submitted job eventually has a terminal stored state (SUCCESS
\* or FAILURE), whichever step fails and whatever the subscribers do.
C1_EventuallyTerminal == (pc = "queued") ~> (store.state \in Terminal)

\* a job that failed after a subscriber connected to it is over and FAILURE
C1_Witness ==
    /\ pc = "done"
    /\ store.state = "FAILURE"
    /\ cause \in {"init", "raise", "null_videometa", "bad_status", "log"}
    /\ sockTask[Subscriber] = TaskId

C3_ProgressWellFormed ==
    [][/\ lstore'.state = "PROGRESS" =>
            /\ 1 <= lstore'.step
            /\ lstore'.step <= lstore'.total
            /\ lstore'.total = TotalSteps
            /\ lstore.state = "PROGRESS" => lstore.step <= lstore'.step
       /\ store'.state = "PROGRESS" =>
            /\ 1 <= store'.step
            /\ store'.step <= store'.total
            /\ store'.total = TotalSteps
            /\ store.state = "PROGRESS" => store.step <= store'.step
       /\ lastProgress'.type = "progress" =>
            /\ 1 <= lastProgress'.step
            /\ lastProgress'.step <= lastProgress'.total
            /\ lastProgress'.total = TotalSteps
            /\ lastProgress.step <= lastProgress'.step]_vars

\* C4: when the provider's record says "not found or is private" the job
\* goes to the except clause and is stored FAILURE with the scraping error
\* code, the provider has been called exactly once, and no caption download,
\* media download or model call was made.
C4_NotFoundFailsAtOnce ==
    cause = "not_found" =>
        /\ pc \in {"h_store", "h_pub", "done"}
        /\ excType = "TikTokScrapingError"
        /\ pc \in {"h_pub", "done"} => store = FailureEntry("SCRAPING_ERROR")
        /\ calls = 1
        /\ gets = [caption |-> 0, media |-> 0]
        /\ engine = NoEngine

C4_Witness ==
    /\ cause = "not_found"
    /\ pc = "done"
    /\ store = FailureEntry("SCRAPING_ERROR")
    /\ calls = 1

\* C5: for a job the provider reports as not found, no progress event
\* beyond step 1 has been published when the error event is published.
C5_NoProgressBeyondFirst ==
    (cause = "not_found" /\ terminalEvents # <<>>) => lastProgress.step <= 1

\* C6: a provider call that raises is retried, with at most 3 attempts in
\* all, before the job is FAILURE; an empty video reference is rejected
\* without any attempt.
C6_TransientRetried ==
    /\ (cause = "raise" /\ store.state = "FAILURE") => (2 <= calls /\ calls <= 3)
    /\ cause = "validation" => (calls = 0 /\ pc = "rejected")

\* C7: a failure of caption or frame recovery (a null videoMeta, a media
\* download that raises or answers a bad status, a video that cannot be
\* opened) never makes the job FAILURE.
C7_ExtractionNeverFatal ==
    cause \in {"null_videometa", "get_raises", "bad_status", "stream_fail", "open_fail"}
        => (store.state # "FAILURE" /\ pc \notin {"h_store", "h_pub"})

\* C8: every recipe the engine hands back has a string title, a list of
\* ingredients and a list of steps; on a failure path it is the placeholder.
C8_RecipeWellFormed ==
    engine.path # "none" =>
        /\ engine.recipe.title = "str"
        /\ engine.recipe.ingredients \in {"list", "empty"}
        /\ engine.recipe.steps \in {"list", "one", "empty"}
        /\ engine.path \in {"no_data", "optimized_failed", "fallback_short", "fallback_failed", "no_text"}
              => (engine.recipe.ingredients = "empty" /\ engine.recipe.steps = "one")

\* C9: under every strategy, when the first model call fails at transport
\* level the engine makes exactly one further call if any caption or
\* narration text exists, and none (the placeholder) if there is no text;
\* the model is called at most twice.
C9_OneFallbackCall ==
    /\ engine.calls <= 2
    /\ engine.firstFailed =>
          IF engine.hadText THEN engine.calls = 2
          ELSE /\ engine.calls = 1
               /\ engine.recipe.ingredients = "empty"
               /\ engine.recipe.steps = "one"

\* C10: when the upload of a finished recipe fails, the stored state is
\* SUCCESS and every terminal event published reports the job successful.
C10_UploadFailureReportsSuccess ==
    (cause = "upload" /\ excType = "none") =>
        /\ store.state # "FAILURE"
        /\ pc = "done" => store.state = "SUCCESS"
        /\ \A i \in DOMAIN terminalEvents :
              /\ terminalEvents[i].type = "completion"
              /\ terminalEvents[i].status = "SUCCESS"

C12_OnlyOwnerAdmitted ==
    \A w \in Sockets :
        (sockState[w] \in {"open", "broken"} \/ first[w] # NoMsg) =>
            /\ sockTask[w] = TaskId
            /\ pc # "idle"
            /\ SocketUser(w) = JobOwner

\* C13: a disconnect of socket w from its job takes w, and nothing else,
\* out of the subscriber map: every other socket stays where it was, in
\* this job's set and in the others', the job's stored state, its position
\* and the bus are untouched, and when w was not in the map the map is
\* left as it was.
C13_DisconnectFrame ==
    [][\A w \in Sockets :
          (sockState[w] \in {"open", "broken", "rejected"} /\ sockState'[w] \in {"closed", "refused"}) =>
              /\ \A k \in JobIds, x \in Sockets :
                    (k \in DOMAIN connections' /\ x \in connections'[k])
                        <=> /\ k \in DOMAIN connections
                            /\ x \in connections[k]
                            /\ ~(k = sockTask[w] /\ x = w)
              /\ (\A k \in DOMAIN connections : w \notin connections[k]) => connections' = connections
              /\ store' = store
              /\ pc' = pc
              /\ step' = step
              /\ bus' = bus]_vars

\* one of two subscribers of the running job has disconnected, the other
\* is still subscribed
C13_Witness ==
    \E w \in Sockets, x \in Sockets :
        /\ sockState[w] = "closed"
        /\ first[w].kind = "replay"
        /\ sockTask[w] = TaskId
        /\ connections = [k \in {TaskId} |-> {x}]
        /\ x # w
        /\ store.state = "PROGRESS"

\* C14: the sockets a fan-out sends to are those in the job's set when it
\* started, all subscribed to the event's job; by the time the loop is over
\* every one of them has been sent to, whether or not a send failed before
\* its turn, and none of them is subscribed to another job; a socket whose
\* send failed is not in the map once the fan-out has ended.
C14_FanOutComplete ==
    [][/\ (fan.phase # "sending" /\ fan'.phase = "sending") =>
             /\ fan'.job = Head(bus).task_id
             /\ fan'.ev = Head(bus)
             /\ fan'.copy = connections[fan'.job]
             /\ fan'.todo = fan'.copy
             /\ \A w \in fan'.copy : sockTask[w] = fan'.job
       /\ (fan.phase = "sending" /\ fan'.phase = "sending") =>
             /\ fan'.copy = fan.copy
             /\ fan'.sent \cup fan'.failed \cup fan'.todo = fan.copy
             /\ \A w \in fan'.sent \cup fan'.failed : sockTask[w] = fan.job
       /\ (fan.phase = "sending" /\ fan'.phase # "sending") =>
             /\ fan.sent \cup fan.failed = fan.copy
             /\ fan.sent \cap fan.failed = {}
             /\ \A w \in fan.failed : \A k \in DOMAIN connections' : w \notin connections'[k]]_vars

\* a fan-out to two subscribers is over its loop: the send to one failed,
\* the other got the event all the same
C14_Witness ==
    /\ fan.phase = "sending"
    /\ fan.todo = {}
    /\ fan.sent # {}
    /\ fan.failed # {}
    /\ fan.job \in DOMAIN connections

\* C19: whatever connects and disconnects run between the sends of a
\* fan-out, broadcast_to_task ends without raising, every key of the
\* subscriber map has a non-empty set, and no socket whose endpoint has
\* disconnected is in the map.
C19_FanOutSafe ==
    /\ fan.phase # "raised"
    /\ \A k \in DOMAIN connections : connections[k] # {}
    /\ \A w \in Sockets :
          sockState[w] \in {"closed", "refused"} => \A k \in DOMAIN connections : w \notin connections[k]

StrategyOfScore(score) ==
    IF score > 80 THEN "text_only"
    ELSE IF score > 50 THEN "reduced_frames"
    ELSE "full_processing"

C16_ShortTextFullProcessing ==
    (probe.done /\ (probe.subtitles.len = 0 \/ probe.subtitles.strip < 50)) =>
        /\ probe.strategy = "full_processing"
        /\ probe.images = probe.frames
        /\ probe.engine.path # "no_data" =>
              /\ probe.engine.strategy = "full_processing"
              /\ probe.engine.images = Len(probe.frames)

\* no caption, no narration, twelve frames: full processing of all twelve
C16_Witness ==
    /\ probe.done
    /\ probe.subtitles = NoText
    /\ probe.text = NoText
    /\ Len(probe.frames) = 12
    /\ probe.engine.strategy = "full_processing"
    /\ probe.engine.images = 12

\* C20: the images of the engine's request are fixed by the strategy:
\* none under text_only, the first min(5, n) of the n frames in their order
\* under reduced_frames, all n frames in their order under full processing.
C20_ImagesByStrategy ==
    probe.done =>
        /\ probe.strategy = "text_only" => probe.images = <<>>
        /\ probe.strategy = "reduced_frames" =>
              /\ Len(probe.images) = Min(5, Len(probe.frames))
              /\ \A i \in 1..Len(probe.images) : probe.images[i] = probe.frames[i]
        /\ probe.strategy = "full_processing" => probe.images = probe.frames
        /\ probe.engine.path # "no_data" => probe.engine.images = Len(probe.images)

\* twelve frames under reduced_frames: the first five were sent
C20_Witness ==
    /\ probe.done
    /\ probe.strategy = "reduced_frames"
    /\ Len(probe.frames) = 12
    /\ probe.images = <<1, 2, 3, 4, 5>>

\* C17: whatever the frame count, the frame rate and the sampling strategy,
\* the sampler hands back at most max_frames frames.
C17_AtMostMaxFrames ==
    sampler.done => Len(sampler.selected) <= sampler.maxf

\* cooking-focused sampling with max_frames 2 computed three positions and
\* handed back two frames
C17_Witness ==
    /\ sampler.done
    /\ sampler.strategy = "cooking_focused"
    /\ sampler.maxf = 2
    /\ Len(sampler.positions) = 3
    /\ Len(sampler.selected) = 2

\* C18: every index the sampler selects lies outside the first and the
\* last 5% of the frames: floor(0.05 * N) <= i < floor(0.95 * N).
C18_InsideUsefulRange ==
    sampler.done =>
        \A k \in 1..Len(sampler.selected) :
            /\ (5 * sampler.total) \div 100 <= sampler.selected[k]
            /\ sampler.selected[k] < (95 * sampler.total) \div 100

\* C21: the score is min(100, L + min(5k, 30) + min(3a, 20) + min(4q, 25) + c)
\* for length bonus L, k keywords, a action keywords, q quantity patterns
\* and coherence bonus c; it lies in 0..100; the 250-character caption with
\* k = 8, a = 4, q = 3 and 6 words a sentence scores 89 and gets text_only.
C21_ScoreFormula ==
    probe.done =>
        LET t == probe.subtitles
            c == IF t.words > 5 * t.sents THEN 10 ELSE IF t.words > 3 * t.sents THEN 5 ELSE 0
            parts == probe.lengthBonus + Min(5 * t.kw, 30) + Min(3 * t.act, 20) + Min(4 * t.qty, 25) + c
        IN /\ probe.lengthBonus \in {0, 15, 25}
           /\ t.len > 0 => probe.quality = Min(100, parts)
           /\ 0 <= probe.quality
           /\ probe.quality <= 100
           /\ t = GoodText => (probe.quality = 89 /\ probe.strategy = "text_only")

\* the scenario's caption scored 89 and went to text_only
C21_Witness ==
    /\ probe.done
    /\ probe.subtitles = GoodText
    /\ probe.quality = 89
    /\ probe.strategy = "text_only"

\* C22: the length bonus is 25 for a text of 200 characters or more, 15
\* for one of 100 to 199 characters, 0 below 100.
C22_LengthBonusInclusive ==
    probe.done =>
        probe.lengthBonus = (IF probe.subtitles.len >= 200 THEN 25
                             ELSE IF probe.subtitles.len >= 100 THEN 15 ELSE 0)

\* C23: the frame positions computed for one video hold no index twice,
\* and the frames handed back are in strictly increasing index order, each
\* index decoded once.
C23_NoIndexTwice ==
    sampler.done =>
        /\ \A i, j \in 1..Len(sampler.positions) :
              i # j => sampler.positions[i] # sampler.positions[j]
        /\ \A i, j \in 1..Len(sampler.selected) :
              i < j => sampler.selected[i] < sampler.selected[j]

\* C24: after _download_and_extract_frames returns or raises, the scratch
\* file it created is gone, on every exit path (bad status, broken body
\* stream, unopenable video, decoding failure, success), and the cleanup
\* does not raise when the file is already gone.
C24_NoScratchLeft ==
    (sampler.done /\ sampler.url # "none" /\ sampler.call.removeOk) =>
        /\ ~sampler.scratch.left
        /\ ~sampler.scratch.cleanupRaised

\* C26: with no media URL resolved, extract_frames hands back the cover
\* image as one frame when a cover field is there and its download works,
\* else the alternate downloader's frames when a web URL is there, else
\* nothing, and it does not raise.
C26_NoUrlBranch ==
    (sampler.done /\ sampler.url = "none") =>
        LET x == sampler.call
            cover == x.vm = "present" /\ x.item.coverUrl
            n == Len(ExtractFramesFromFile(x.video).selected)
        IN /\ ~sampler.raised
           /\ ~sampler.scratch.created
           /\ (cover /\ x.cov = "ok") => (sampler.frames = 1 /\ sampler.gets = 1)
           /\ (~(cover /\ x.cov = "ok") /\ x.item.webVideoUrl) =>
                 /\ sampler.frames = (IF x.yt = "ok" THEN n ELSE 0)
                 /\ sampler.gets = (IF cover THEN 2 ELSE 1)
           /\ (~(cover /\ x.cov = "ok") /\ ~x.item.webVideoUrl) =>
                 /\ sampler.frames = 0
                 /\ sampler.gets = (IF cover THEN 1 ELSE 0)

C26_Witness ==
    /\ sampler.done
    /\ sampler.url = "none"
    /\ sampler.call.item.coverUrl
    /\ sampler.call.cov = "fail"
    /\ sampler.call.yt = "ok"
    /\ sampler.frames = 20
    /\ ~sampler.raised

\* C25: the parser tries the direct parse, the fenced block, the object
\* with ingredients and steps, and any object-like substring, in that
\* order, and hands back what the first one that parses gives; a strategy
\* that applies and fails does not stop the later ones, and the placeholder
\* recipe comes back only when all of them fail.
C25_FirstThatParses ==
    probe.done =>
        LET c == probe.content
            strategies == <<c.direct>> \o c.pats
            parsing == {i \in 1..Len(strategies) : strategies[i].m = "obj"}
        IN IF parsing # {}
           THEN probe.parsed = strategies[CHOOSE i \in parsing : \A k \in parsing : i <= k].obj
           ELSE probe.parsed \in {CreateFallbackRecipe("Konnte JSON nicht parsen"),
                                  CreateFallbackRecipe("JSON parsing fehlgeschlagen")}

\* C27: once the completion event of a job has been published, the job
\* store no longer reports PENDING or PROGRESS for it: whoever gets the
\* event and then asks for the status is told SUCCESS.
C27_SuccessBeforeCompletion ==
    (\E i \in 1..Len(terminalEvents) : terminalEvents[i].type = "completion") =>
        store.state \notin {"PENDING", "PROGRESS"}

\* C29: a run of the task publishes one terminal event (completion or
\* error) and never a second one, also when logging fails after the
\* recipe was handed to the persistence service.
C29_OneTerminalEvent == Len(terminalEvents) <= 1

\* C30: a publish that fails changes nothing of the job: the step that
\* publishes raises nothing, writes nothing to the job store, and moves the
\* task to the same next step whether or not the bus took the event.
PublishSteps == {"progress_pub", "pub_completion", "pub_upload_error", "h_pub"}

C30_PublishFailureHarmless ==
    [][(pc \in PublishSteps /\ pc' # pc) =>
          /\ store' = store
          /\ result' = result
          /\ uploaded' = uploaded
          /\ excType' = excType
          /\ cause' = cause
          /\ pc' = (IF pc = "progress_pub" THEN AfterProgress(step)
                    ELSE IF pc = "h_pub" THEN HandlerExit
                    ELSE "log_success")]_vars

C30_Witness ==
    /\ pc = "done"
    /\ store = SuccessEntry(TRUE)
    /\ lastProgress = NoEvent
    /\ terminalEvents = <<>>

\* C28: the step values one subscriber connection receives, the status
\* replayed at connect and then the live progress events, never go down,
\* whatever the order of the worker's writes and publishes, the listener's
\* reads and the connect.
C28_StepsNonDecreasing ==
    [][\A w \in Sockets :
          (/\ w \in fan'.sent \ fan.sent
           /\ fan.ev.type = "progress"
           /\ first[w].kind = "replay"
           /\ first[w].status = "PROGRESS") => fan.ev.step >= first[w].step]_vars

====
